---- MODULE Spec2Model ----
(***************************************************************************)
(* Model of the live-matching backend: the participants, selections and    *)
(* matches tables (database.py), the mutual-match resolver (matching.py)   *)
(* and the request handlers that change them (app.py).                     *)
(*                                                                         *)
(* Spec      : from the empty database, the handlers run one after         *)
(*             another, each as a whole.                                   *)
(* SpecFind  : from any participants and selections tables,                *)
(*             find_mutual_matches is applied with the participants in     *)
(*             any order, and run-matching runs as a whole.                *)
(* SpecSteps : from any tables a sequence of requests can leave behind,    *)
(*             two workers execute run-matching store call by store call,  *)
(*             and any store call may raise.                               *)
(***************************************************************************)
EXTENDS Integers, Sequences, FiniteSets, TLC

\* ---------------------------------------------------------------- bounds
MaxId == 2        \* ids used by the requests of Spec and the tables of SpecSteps: 1..MaxId
MaxStoreId == 3   \* ids in the tables SpecFind starts from: 1..MaxStoreId
MaxRank == 1      \* ranks are 0..MaxRank
MaxLen == 2       \* longest selections array / CSV file in one request
MaxRequests == 6  \* requests handled in one behaviour of Spec

Ids == 1..MaxId
StoreIds == 1..MaxStoreId
AnyIds == Ids \cup StoreIds
Ranks == 0..MaxRank
Workers == {1, 2}

VARIABLES
    participants,   \* participants table: the set of ids (PRIMARY KEY)
    selections,     \* selections table: rows [selector_id, selected_id, rank]
    matches,        \* matches table in row-id order: rows [participant1_id, participant2_id, rank1, rank2]
    request,        \* the last request handled
    response,       \* the response sent for it
    pre,            \* the tables and the response as they were before that request
    nreq,           \* number of requests handled
    returned,       \* the list the last find_mutual_matches call returned
    run             \* per worker: the position and locals of its run_matching_algorithm call

vars == <<participants, selections, matches, request, response, pre, nreq, returned, run>>

\* ------------------------------------------------------------ database.py

\* add_participant: INSERT, or None on the PRIMARY KEY IntegrityError.
add_participant(parts, participant_id) ==
    IF participant_id \in parts THEN parts ELSE parts \cup {participant_id}

RECURSIVE SortIds(_)
SortIds(S) ==
    IF S = {} THEN <<>>
    ELSE LET m == CHOOSE x \in S : \A y \in S : x <= y
         IN  <<m>> \o SortIds(S \ {m})

\* get_all_participants: SELECT ... ORDER BY id.
get_all_participants(parts) == SortIds(parts)

\* Faulty variant: INSERT OR REPLACE, the later entry of a repeated id wins.
add_selection_replace(sels, selector_id, selected_id, rank) ==
    {s \in sels : ~(s.selector_id = selector_id /\ s.selected_id = selected_id)}
        \cup {[selector_id |-> selector_id, selected_id |-> selected_id, rank |-> rank]}

\* Faulty variant: a selection of oneself is rejected.
add_selection_noself(sels, selector_id, selected_id, rank) ==
    IF selector_id = selected_id
       \/ \E s \in sels : s.selector_id = selector_id /\ s.selected_id = selected_id
    THEN sels
    ELSE sels \cup {[selector_id |-> selector_id, selected_id |-> selected_id, rank |-> rank]}

\* add_selection: INSERT, or False on the UNIQUE(selector_id, selected_id)
\* IntegrityError, which leaves the table as it was.
add_selection(sels, selector_id, selected_id, rank) ==
    IF \E s \in sels : s.selector_id = selector_id /\ s.selected_id = selected_id
    THEN sels
    ELSE sels \cup {[selector_id |-> selector_id, selected_id |-> selected_id, rank |-> rank]}

\* clear_selections: DELETE FROM selections WHERE selector_id = ?.
clear_selections(sels, participant_id) ==
    {s \in sels : s.selector_id # participant_id}

\* get_selections_by_participant: SELECT selected_id, rank ... ORDER BY rank.
\* Rows of equal rank come in an order SQL leaves open, so the query has a
\* set of possible results.
get_selections_by_participant(sels, participant_id) ==
    LET rows == {[selected_id |-> s.selected_id, rank |-> s.rank] :
                    s \in {t \in sels : t.selector_id = participant_id}}
        n == Cardinality(rows)
    IN  {q \in [1..n -> rows] :
            /\ \A i, j \in 1..n : i # j => q[i] # q[j]
            /\ \A i, j \in 1..n : i < j => q[i].rank <= q[j].rank}

\* The ids find_mutual_matches queries: the participants and whoever they selected.
QueriedIds(parts, sels) == parts \cup {s.selected_id : s \in sels}

\* One result of the query for every id in ids.
RECURSIVE FetchesOver(_, _)
FetchesOver(ids, sels) ==
    IF ids = {} THEN {<<>>}
    ELSE LET p == CHOOSE x \in ids : TRUE
         IN  {[q \in ids |-> IF q = p THEN l ELSE f[q]] :
                 f \in FetchesOver(ids \ {p}, sels),
                 l \in get_selections_by_participant(sels, p)}

\* One result of the query for every id queried.
Fetches(parts, sels) == FetchesOver(QueriedIds(parts, sels), sels)

\* Faulty variant: nothing is deleted.
clear_matches_noop(ms) == ms

\* clear_matches: DELETE FROM matches.
clear_matches(ms) == <<>>

\* add_match: INSERT INTO matches; the table has no uniqueness constraint.
add_match(ms, participant1_id, participant2_id, rank1, rank2) ==
    Append(ms, [participant1_id |-> participant1_id, participant2_id |-> participant2_id,
                rank1 |-> rank1, rank2 |-> rank2])

\* get_all_matches: matches JOIN participants p1 JOIN participants p2 ORDER BY m.id.
get_all_matches(ms, parts) ==
    SelectSeq(ms, LAMBDA m : m.participant1_id \in parts /\ m.participant2_id \in parts)

\* ------------------------------------------------------------ matching.py

\* {sel['selected_id']: sel['rank'] for sel in ...}: membership, lookup (the
\* last entry of a key wins) and the keys in first-insertion order.
dict_has(list, k) == \E i \in DOMAIN list : list[i].selected_id = k

dict_get(list, k) ==
    list[CHOOSE i \in DOMAIN list :
            /\ list[i].selected_id = k
            /\ \A j \in DOMAIN list : list[j].selected_id = k => j <= i].rank

RECURSIVE dict_keys(_)
dict_keys(list) ==
    IF list = <<>> THEN <<>>
    ELSE LET front == SubSeq(list, 1, Len(list) - 1)
             k == list[Len(list)].selected_id
         IN  IF dict_has(front, k) THEN dict_keys(front)
             ELSE Append(dict_keys(front), k)

\* Faulty variant: the pair is not sorted.
sorted_pair_unsorted(a, b) == <<a, b>>

\* tuple(sorted([participant_id, selected_id]))
sorted_pair(a, b) == IF a <= b THEN <<a, b>> ELSE <<b, a>>

\* Faulty variant: a pair counts as processed once its lower id has a processed pair.
already_processed_by_first(pair, processed_pairs) ==
    \E q \in processed_pairs : q[1] = pair[1]

\* "pair not in processed_pairs", negated.
already_processed(pair, processed_pairs) == pair \in processed_pairs

\* Faulty variant: the ranks are taken as if the participant being processed were
\* always the lower id.
match_record_unswapped(participant_id, selected_id, their, reverse) ==
    LET pair == sorted_pair(participant_id, selected_id)
    IN  [participant1_id |-> pair[1],
         participant2_id |-> pair[2],
         rank1 |-> dict_get(their, selected_id),
         rank2 |-> dict_get(reverse, participant_id)]

\* The dict appended for a mutual selection found while processing
\* participant_id: the pair in sorted order and the two ranks.
match_record(participant_id, selected_id, their, reverse) ==
    LET pair == sorted_pair(participant_id, selected_id)
    IN  [participant1_id |-> pair[1],
         participant2_id |-> pair[2],
         rank1 |-> IF pair[1] = participant_id
                   THEN dict_get(their, selected_id)
                   ELSE dict_get(reverse, participant_id),
         rank2 |-> IF pair[1] = participant_id
                   THEN dict_get(reverse, participant_id)
                   ELSE dict_get(their, selected_id)]

\* The body of "for selected_id in their_selections_dict.keys()".
\* acc = [matches, processed_pairs].
RECURSIVE scan_selected(_, _, _, _, _)
scan_selected(participant_id, keys, their, fetch, acc) ==
    IF keys = <<>> THEN acc
    ELSE
      LET selected_id == Head(keys)
          reverse == fetch[selected_id]
          pair == sorted_pair(participant_id, selected_id)
          next == IF dict_has(reverse, participant_id) /\ ~already_processed(pair, acc.processed_pairs)
                  THEN [matches |-> Append(acc.matches,
                                      match_record(participant_id, selected_id, their, reverse)),
                        processed_pairs |-> acc.processed_pairs \cup {pair}]
                  ELSE acc
      IN  scan_selected(participant_id, Tail(keys), their, fetch, next)

\* The body of "for participant in participants".
RECURSIVE scan_participants(_, _, _)
scan_participants(plist, fetch, acc) ==
    IF plist = <<>> THEN acc
    ELSE
      LET participant_id == Head(plist)
          their == fetch[participant_id]
      IN  scan_participants(Tail(plist), fetch,
              scan_selected(participant_id, dict_keys(their), their, fetch, acc))

\* find_mutual_matches, for the participants in the order plist and the
\* query results fetch.
find_mutual_matches(plist, fetch) ==
    scan_participants(plist, fetch, [matches |-> <<>>, processed_pairs |-> {}]).matches

\* "for match in matches: add_match(...)"
RECURSIVE add_matches(_, _)
add_matches(ms, found) ==
    IF found = <<>> THEN ms
    ELSE add_matches(add_match(ms, Head(found).participant1_id, Head(found).participant2_id,
                               Head(found).rank1, Head(found).rank2),
                     Tail(found))

\* ------------------------------------------------------------------ app.py

Entries == [id : Ids, rank : Ranks]
SelectionLists == UNION {[1..k -> Entries] : k \in 0..MaxLen}
CsvRows == UNION {[1..k -> Ids] : k \in 1..MaxLen}

\* "for selection in selections: add_selection(participant['id'], id, rank)"
RECURSIVE add_selections(_, _, _)
add_selections(sels, participant_id, list) ==
    IF list = <<>> THEN sels
    ELSE add_selections(add_selection(sels, participant_id, Head(list).id, Head(list).rank),
                        participant_id, Tail(list))

\* "for row in csv_reader: add_participant(...)", over the valid rows.
RECURSIVE add_participants(_, _)
add_participants(parts, rows) ==
    IF rows = <<>> THEN parts
    ELSE add_participants(add_participant(parts, Head(rows)), Tail(rows))

\* participants_added: the rows whose add_participant returned a token.
RECURSIVE participants_added(_, _)
participants_added(parts, rows) ==
    IF rows = <<>> THEN 0
    ELSE (IF Head(rows) \in parts THEN 0 ELSE 1)
         + participants_added(add_participant(parts, Head(rows)), Tail(rows))

NoRequest == [op |-> "none", who |-> 0, rows |-> <<>>, list |-> <<>>]
NoResponse == [op |-> "none", status |-> 0, n |-> 0]
IdleRun == [pc |-> "idle", matches |-> <<>>, i |-> 0, before |-> <<>>]

Snapshot == [participants |-> participants, selections |-> selections,
             matches |-> matches, response |-> response]

Idle == \A w \in Workers : run[w].pc = "idle"

\* Bookkeeping of a handler that runs as a whole.
Log(req, resp) ==
    /\ Idle
    /\ nreq < MaxRequests
    /\ nreq' = nreq + 1
    /\ request' = req
    /\ response' = resp
    /\ pre' = Snapshot
    /\ UNCHANGED run

\* POST /api/admin/upload-csv with the ids of the file's valid rows, in file order.
upload_csv(rows) ==
    /\ participants' = add_participants(participants, rows)
    /\ UNCHANGED <<selections, matches, returned>>
    /\ Log([NoRequest EXCEPT !.op = "upload_csv", !.rows = rows],
           [op |-> "upload_csv", status |-> 200, n |-> participants_added(participants, rows)])

\* Faulty variant: the matches are left in place.
clear_all_data_keep_matches ==
    /\ participants' = {}
    /\ selections' = {}
    /\ matches' = matches

\* clear_all_data: DELETE FROM matches, selections, participants.
clear_all_data ==
    /\ participants' = {}
    /\ selections' = {}
    /\ matches' = <<>>

\* POST /api/admin/clear-all
clear_all ==
    /\ clear_all_data
    /\ UNCHANGED returned
    /\ Log([NoRequest EXCEPT !.op = "clear_all"],
           [op |-> "clear_all", status |-> 200, n |-> 0])

\* POST /api/participant/<token>/selections with the token of participant
\* who; get_participant_by_token finds nobody when who is no participant.
submit_selections(who, list) ==
    /\ IF who \notin participants
       THEN /\ UNCHANGED <<participants, selections, matches, returned>>
            /\ Log([NoRequest EXCEPT !.op = "submit_selections", !.who = who, !.list = list],
                   [op |-> "submit_selections", status |-> 404, n |-> 0])
       ELSE /\ selections' = add_selections(clear_selections(selections, who), who, list)
            /\ UNCHANGED <<participants, matches, returned>>
            /\ Log([NoRequest EXCEPT !.op = "submit_selections", !.who = who, !.list = list],
                   [op |-> "submit_selections", status |-> 200, n |-> Len(list)])

\* Faulty variant: with nothing found the call returns 0 before it clears.
run_matching_algorithm_early_return(ms, parts, fetch) ==
    LET found == find_mutual_matches(get_all_participants(parts), fetch)
    IN  [matches |-> IF found = <<>> THEN ms ELSE add_matches(clear_matches(ms), found),
         found |-> found,
         count |-> Len(found)]

\* run_matching_algorithm, given the results of its queries: the table after
\* it and the count it returns.
run_matching_algorithm(ms, parts, fetch) ==
    LET found == find_mutual_matches(get_all_participants(parts), fetch)
    IN  [matches |-> add_matches(clear_matches(ms), found),
         found |-> found,
         count |-> Len(found)]

\* POST /api/admin/run-matching, with no other request in between.
run_matching ==
    \E fetch \in Fetches(participants, selections) :
        LET r == run_matching_algorithm(matches, participants, fetch)
        IN  /\ matches' = r.matches
            /\ returned' = r.found
            /\ UNCHANGED <<participants, selections>>
            /\ Log([NoRequest EXCEPT !.op = "run_matching"],
                   [op |-> "run_matching", status |-> 200, n |-> r.count])

Init ==
    /\ participants = {}
    /\ selections = {}
    /\ matches = <<>>
    /\ request = NoRequest
    /\ response = NoResponse
    /\ pre = [participants |-> {}, selections |-> {}, matches |-> <<>>, response |-> NoResponse]
    /\ nreq = 0
    /\ returned = <<>>
    /\ run = [w \in Workers |-> IdleRun]

Next ==
    \/ \E rows \in CsvRows : upload_csv(rows)
    \/ clear_all
    \/ \E who \in Ids, list \in SelectionLists : submit_selections(who, list)
    \/ run_matching

Spec == Init /\ [][Next]_vars

\* --------------------------------------------------- tables to start from

\* Every selections table over the selectors parts and the selected ids ids:
\* at most one row per (selector_id, selected_id).
Tables(parts, ids) ==
    {{[selector_id |-> x[1], selected_id |-> x[2], rank |-> f[x]] :
            x \in {y \in parts \X ids : f[y] >= 0}} :
        f \in [parts \X ids -> Ranks \cup {-1}]}

Sequences(S) ==
    LET n == Cardinality(S)
    IN  {q \in [1..n -> S] : \A i, j \in 1..n : i # j => q[i] # q[j]}

\* ------------------------------------------------------------- SpecFind

InitFind ==
    /\ participants \in SUBSET StoreIds
    /\ selections \in Tables(participants, StoreIds)
    /\ matches = <<>>
    /\ request = NoRequest
    /\ response = NoResponse
    /\ pre = [participants |-> participants, selections |-> selections,
              matches |-> <<>>, response |-> NoResponse]
    /\ nreq = 0
    /\ returned = <<>>
    /\ run = [w \in Workers |-> IdleRun]

\* find_mutual_matches applied to the tables, with the participants list in
\* any order plist.
find_in_order ==
    /\ request.op = "none"
    /\ \E plist \in Sequences(participants), fetch \in Fetches(participants, selections) :
        /\ returned' = find_mutual_matches(plist, fetch)
        /\ request' = [NoRequest EXCEPT !.op = "find_mutual_matches", !.rows = plist]
    /\ UNCHANGED <<participants, selections, matches, response, pre, nreq, run>>

\* POST /api/admin/run-matching on the tables.
run_matching_once ==
    /\ request.op = "none"
    /\ run_matching

NextFind ==
    \/ find_in_order
    \/ run_matching_once

SpecFind == InitFind /\ [][NextFind]_vars

\* ------------------------------------------------------------ SpecSteps

\* Participants, the selections before and after an earlier run-matching,
\* and the matches that run stored.
InitSteps ==
    /\ participants \in SUBSET Ids
    /\ selections \in Tables(participants, Ids)
    /\ \E old \in Tables(participants, Ids) :
        \E fetch \in Fetches(participants, old) :
            matches = run_matching_algorithm(<<>>, participants, fetch).matches
    /\ request = NoRequest
    /\ response = NoResponse
    /\ pre = [participants |-> participants, selections |-> selections,
              matches |-> matches, response |-> NoResponse]
    /\ nreq = 0
    /\ returned = <<>>
    /\ run = [w \in Workers |-> IdleRun]

StepFrame == UNCHANGED <<participants, selections, request, response, pre, nreq, returned>>

\* A worker takes a POST /api/admin/run-matching request and calls
\* clear_matches(): DELETE and commit.
clear_step(w) ==
    /\ run[w].pc = "idle"
    /\ matches' = clear_matches(matches)
    /\ run' = [run EXCEPT ![w] = [IdleRun EXCEPT !.pc = "find", !.before = matches]]
    /\ StepFrame

\* matches = find_mutual_matches(): reads only. With nothing found the
\* loop is skipped and the handler answers 200.
find_step(w) ==
    /\ run[w].pc = "find"
    /\ \E fetch \in Fetches(participants, selections) :
        LET found == find_mutual_matches(get_all_participants(participants), fetch)
        IN  run' = [run EXCEPT ![w].pc = IF found = <<>> THEN "done" ELSE "insert",
                        ![w].i = 1, ![w].matches = found]
    /\ UNCHANGED matches
    /\ StepFrame

\* One pass of "for match in matches: add_match(...)": INSERT and commit.
\* After the last pass the call returns len(matches) and the handler answers 200.
insert_step(w) ==
    /\ run[w].pc = "insert"
    /\ LET m == run[w].matches[run[w].i]
       IN  matches' = add_match(matches, m.participant1_id, m.participant2_id, m.rank1, m.rank2)
    /\ run' = [run EXCEPT ![w].i = @ + 1,
                    ![w].pc = IF run[w].i = Len(run[w].matches) THEN "done" ELSE "insert"]
    /\ StepFrame

\* The store call the worker is about to make raises before it commits
\* anything; the handler's except answers 500.
fail_step(w) ==
    /\ run[w].pc \in {"idle", "find", "insert"}
    /\ run' = [run EXCEPT ![w].pc = "failed", ![w].before = IF run[w].pc = "idle" THEN matches ELSE @]
    /\ UNCHANGED matches
    /\ StepFrame

NextSteps ==
    \E w \in Workers :
        \/ clear_step(w)
        \/ find_step(w)
        \/ insert_step(w)
        \/ fail_step(w)

SpecSteps == InitSteps /\ [][NextSteps]_vars

\* ================================================================ claims

Range(q) == {q[i] : i \in DOMAIN q}

\* A selection a -> b is stored.
selected(sels, a, b) == \E s \in sels : s.selector_id = a /\ s.selected_id = b

\* The rank a stored for b.
rank_given(sels, a, b) == (CHOOSE s \in sels : s.selector_id = a /\ s.selected_id = b).rank

\* The unordered pairs selected both ways, lower id first.
MutualPairs(sels) ==
    {x \in AnyIds \X AnyIds : x[1] <= x[2] /\ selected(sels, x[1], x[2]) /\ selected(sels, x[2], x[1])}

\* The match record of each mutual pair.
ExpectedRecords(sels) ==
    {[participant1_id |-> x[1], participant2_id |-> x[2],
      rank1 |-> rank_given(sels, x[1], x[2]), rank2 |-> rank_given(sels, x[2], x[1])] :
        x \in MutualPairs(sels)}

\* The positions in ms of the records of the unordered pair {a, b}.
RecordsOf(ms, a, b) ==
    {i \in DOMAIN ms : {ms[i].participant1_id, ms[i].participant2_id} = {a, b}}

InSomeMatch(ms, p) ==
    \E i \in DOMAIN ms : p \in {ms[i].participant1_id, ms[i].participant2_id}

RanMatching == response.op = "run_matching"

\* C1 (SpecFind): after run matching, the match store holds a record for the
\* unordered pair {a, b} iff selections a -> b and b -> a are both stored; a
\* participant with no selections, or selected by nobody, is in no match.
C1_MatchIffMutual ==
    RanMatching =>
        /\ \A a, b \in AnyIds :
            RecordsOf(matches, a, b) # {}
                <=> selected(selections, a, b) /\ selected(selections, b, a)
        /\ \A p \in AnyIds :
            (\/ \A b \in AnyIds : ~selected(selections, p, b)
             \/ \A a \in AnyIds : ~selected(selections, a, p))
                => ~InSomeMatch(matches, p)

\* A run over a mutual pair, a one-sided selection and a participant who
\* selected nobody.
C1_Witness ==
    /\ RanMatching
    /\ \E a, b, c \in participants :
        /\ a # b /\ b # c /\ a # c
        /\ RecordsOf(matches, a, b) # {}
        /\ selected(selections, b, c)
        /\ \A x \in AnyIds : ~selected(selections, c, x)
        /\ ~InSomeMatch(matches, c)

\* The unordered pair {a, b}, lower id first.
LowHigh(a, b) == <<IF a <= b THEN a ELSE b, IF a <= b THEN b ELSE a>>

FindReturned == request.op \in {"find_mutual_matches", "run_matching"}

\* C2 (SpecFind): whatever the order the participants are processed in, the
\* list find_mutual_matches returns has no two records of one unordered pair,
\* and its pairs are exactly the mutual pairs of the selections table.
C2_NoDuplicatePairs ==
    FindReturned =>
        /\ \A i, j \in DOMAIN returned :
            i # j => {returned[i].participant1_id, returned[i].participant2_id}
                        # {returned[j].participant1_id, returned[j].participant2_id}
        /\ {LowHigh(returned[i].participant1_id, returned[i].participant2_id) :
                i \in DOMAIN returned} = MutualPairs(selections)

\* Two pairs found with the participants processed out of id order.
C2_Witness ==
    /\ request.op = "find_mutual_matches"
    /\ \E i, j \in DOMAIN request.rows : i < j /\ request.rows[i] > request.rows[j]
    /\ Len(returned) >= 2
    /\ \E i \in DOMAIN returned : returned[i].participant1_id # returned[i].participant2_id

\* C3 (SpecFind): in every record returned, participant1_id is the lower id,
\* rank1 is the rank the lower id stored for the higher and rank2 the rank the
\* higher stored for the lower, whoever was processed first; rank 0 included.
C3_RanksFollowIds ==
    FindReturned =>
        \A i \in DOMAIN returned :
            LET m == returned[i]
            IN  /\ m.participant1_id <= m.participant2_id
                /\ m.rank1 = rank_given(selections, m.participant1_id, m.participant2_id)
                /\ m.rank2 = rank_given(selections, m.participant2_id, m.participant1_id)

\* A pair with ranks 0 and non-0, found from its higher id.
C3_Witness ==
    /\ request.op = "find_mutual_matches"
    /\ \E i \in DOMAIN returned :
        LET m == returned[i]
        IN  /\ m.participant1_id < m.participant2_id
            /\ m.rank1 = 0
            /\ m.rank2 # 0
            /\ \E k, l \in DOMAIN request.rows :
                k < l /\ request.rows[k] = m.participant2_id
                      /\ request.rows[l] = m.participant1_id

\* C4 (Spec): after run matching the match store holds exactly the records of
\* the stored selections' mutual pairs, once each, whatever it held before;
\* the count returned is the number of records stored; with no mutual
\* selections the store is empty and the count 0.
C4_FullReplace ==
    RanMatching =>
        /\ Range(matches) = ExpectedRecords(selections)
        /\ Len(matches) = Cardinality(ExpectedRecords(selections))
        /\ matches = returned
        /\ response.n = Len(matches)
        /\ MutualPairs(selections) = {} => matches = <<>> /\ response.n = 0

\* Matches existed, no mutual selection is left, and the run emptied the store.
C4_Witness ==
    /\ RanMatching
    /\ pre.matches # <<>>
    /\ matches = <<>>
    /\ response.n = 0

\* C5 (Spec): two run-matching requests in a row leave the same set of
\* records in the store and return the same count.
C5_Idempotent ==
    (RanMatching /\ pre.response.op = "run_matching") =>
        /\ Range(matches) = Range(pre.matches)
        /\ Len(matches) = Len(pre.matches)
        /\ response.n = pre.response.n

\* A second run in a row over a store with two matches.
C5_Witness ==
    /\ RanMatching
    /\ pre.response.op = "run_matching"
    /\ Len(matches) >= 2

\* The entries of list that are the first of their id.
FirstEntries(list) ==
    {list[i] : i \in {k \in DOMAIN list : \A j \in 1..(k - 1) : list[j].id # list[k].id}}

Submitted == request.op = "submit_selections" /\ response.status = 200

\* C6 (Spec): after participant who submits list, who's stored selections are
\* the entries of list, the first entry of a repeated id, and nothing of
\* who's earlier selections; no (selector_id, selected_id) is stored twice;
\* the others' selections, the participants and the matches are as before.
C6_SubmitOverwrites ==
    /\ \A s, t \in selections :
        (s.selector_id = t.selector_id /\ s.selected_id = t.selected_id) => s = t
    /\ Submitted =>
        /\ {s \in selections : s.selector_id = request.who}
              = {[selector_id |-> request.who, selected_id |-> e.id, rank |-> e.rank] :
                    e \in FirstEntries(request.list)}
        /\ {s \in selections : s.selector_id # request.who}
              = {s \in pre.selections : s.selector_id # request.who}
        /\ participants = pre.participants
        /\ matches = pre.matches

\* A list with one id twice, under two ranks, submitted by a participant
\* whose earlier selections are gone, next to another's selections and a match.
C6_Witness ==
    /\ Submitted
    /\ \E i, j \in DOMAIN request.list :
        i < j /\ request.list[i].id = request.list[j].id
              /\ request.list[i].rank # request.list[j].rank
    /\ \E s \in pre.selections : s.selector_id = request.who /\ s \notin selections
    /\ \E s \in selections : s.selector_id # request.who
    /\ matches # <<>>

\* C8 (Spec): a submitted selection of oneself is accepted and stored like
\* any other, and run matching records for a stored selection a -> a of rank
\* r exactly one record, with both ids a and both ranks r.
C8_SelfSelectionKept ==
    /\ (request.op = "submit_selections" /\ request.who \in pre.participants) =>
        /\ response.status = 200
        /\ (\E i \in DOMAIN request.list : request.list[i].id = request.who)
              => selected(selections, request.who, request.who)
    /\ RanMatching =>
        \A s \in selections :
            s.selector_id = s.selected_id =>
                /\ Cardinality(RecordsOf(matches, s.selector_id, s.selector_id)) = 1
                /\ \A i \in RecordsOf(matches, s.selector_id, s.selector_id) :
                    /\ matches[i].participant1_id = s.selector_id
                    /\ matches[i].participant2_id = s.selector_id
                    /\ matches[i].rank1 = s.rank
                    /\ matches[i].rank2 = s.rank

\* A run that recorded a participant's match with itself, at a rank other than 0.
C8_Witness ==
    /\ RanMatching
    /\ \E i \in DOMAIN matches :
        /\ matches[i].participant1_id = matches[i].participant2_id
        /\ matches[i].rank1 # 0
        /\ selected(selections, matches[i].participant1_id, matches[i].participant1_id)

\* C10 (Spec): every stored selection's selector and both ids of every stored
\* match are participants, so the match listing returns every stored match.
C10_IdsExist ==
    /\ \A s \in selections : s.selector_id \in participants
    /\ \A i \in DOMAIN matches :
        matches[i].participant1_id \in participants /\ matches[i].participant2_id \in participants
    /\ get_all_matches(matches, participants) = matches

\* Matches are listed while a stored selection names an id that is no participant.
C10_Witness ==
    /\ matches # <<>>
    /\ get_all_matches(matches, participants) = matches
    /\ \E s \in selections : s.selected_id \notin participants

\* Worker w failed and no other worker ever ran.
FailedAlone(w) ==
    /\ run[w].pc = "failed"
    /\ \A v \in Workers \ {w} : run[v].pc = "idle"

\* C7 (SpecSteps), as claimed: after a run that failed at some store call, the
\* match store is the complete set from before the run or the complete newly
\* computed set.
C7_NoPartialPersistence ==
    \A w \in Workers :
        FailedAlone(w) =>
            \/ matches = run[w].before
            \/ /\ Range(matches) = ExpectedRecords(selections)
               /\ Len(matches) = Cardinality(ExpectedRecords(selections))

BothDone == \A w \in Workers : run[w].pc = "done"

\* C9 (SpecSteps), as claimed: once two concurrent runs have both finished,
\* the match store holds each mutual pair exactly once.
C9_ExactlyOnce ==
    BothDone =>
        /\ \A x \in MutualPairs(selections) : Cardinality(RecordsOf(matches, x[1], x[2])) = 1
        /\ Range(matches) = ExpectedRecords(selections)

\* C9 (SpecSteps), amended: once two concurrent runs have both returned, the
\* match store holds only records of mutual pairs, each mutual pair at least
\* once and at most twice.
C9_AtLeastOnceAtMostTwice ==
    BothDone =>
        /\ \A x \in MutualPairs(selections) :
            Cardinality(RecordsOf(matches, x[1], x[2])) \in {1, 2}
        /\ Range(matches) = ExpectedRecords(selections)

\* Both runs returned and a pair is stored twice.
C9_Witness ==
    /\ BothDone
    /\ \E x \in MutualPairs(selections) : Cardinality(RecordsOf(matches, x[1], x[2])) = 2

====
